---- MODULE Spec2Model ----
(***************************************************************************)
(* Model of app/crud/__init__.py: the with_session transaction wrapper,    *)
(* the keyword-filter compiler (_parse_filters) and the BaseCRUD           *)
(* operations create / get / exists / count / update / db_delete /         *)
(* delete / upsert, run against one entity table.                          *)
(*                                                                         *)
(* Storage is a table of rows keyed by primary key.  A session sees the    *)
(* committed table overlaid with its own uncommitted writes; commit makes  *)
(* the overlay the committed table, rollback drops it.                     *)
(***************************************************************************)
EXTENDS Integers, Sequences, FiniteSets, TLC

\* ------------------------------------------------------------------ bounds
MaxRows == 2
MaxCalls == 2
\* the largest offset and limit asked of get_multi; the joined entity's rows
MaxPage == 1
MaxKids == 2
\* the callers that run concurrently
MaxCallers == 2

Ids == 1..MaxRows
Names == {1, 2}
\* storage round trips one call can make before it returns: the guard's
\* count, the statement, the commit (0 = no injected failure)
FailPoints == 0..4

\* db, sess, cfg, ncalls, last: the entity's table, the caller's session, the
\* entity declaration, the calls made and the last call's outcome.
\* query: the sorting and pagination arguments of the last select/get_multi.
\* joined, jcall: the joined entity's table; the last get_joined call.
\* callers: the calls in flight of the callers that run concurrently.
VARIABLES db, sess, cfg, ncalls, last, query, joined, jcall, callers

vars == <<db, sess, cfg, ncalls, last, query, joined, jcall, callers>>

Max(a, b) == IF a >= b THEN a ELSE b

\* --------------------------------------------------------------- the rows
Absent ==
  [present |-> FALSE, name |-> 0, is_deleted |-> FALSE, deleted_at |-> 0, updated_at |-> 0]

NewRow(n) ==
  [present |-> TRUE, name |-> n, is_deleted |-> FALSE, deleted_at |-> 0, updated_at |-> 0]

EmptyTable == [i \in Ids |-> Absent]

\* the entity declarations explored: no optional column, the soft-delete
\* pair, the soft-delete pair plus the audit column
EntityKinds ==
  { {}, {"is_deleted", "deleted_at"}, {"is_deleted", "deleted_at", "updated_at"} }

\* BaseCRUD.is_deleted_column / deleted_at_column / updated_at_column
is_deleted_column == "is_deleted"
deleted_at_column == "deleted_at"
updated_at_column == "updated_at"

\* the attributes getattr(model, name, None) resolves to a column
Columns(c) == {"id", "name"} \cup c

\* ------------------------------------------------------ filter values
\* a Python value handed to a filter: a scalar, None, a list/tuple/set, or
\* a mapping {operator: value} (its entries in iteration order)
Scalar(v) == [t |-> "scalar", v |-> v, l |-> {}, d |-> <<>>]
NoneVal == [t |-> "none", v |-> 0, l |-> {}, d |-> <<>>]
ListVal(s) == [t |-> "list", v |-> 0, l |-> s, d |-> <<>>]
DictVal(entries) == [t |-> "dict", v |-> 0, l |-> {}, d |-> entries]

\* a keyword argument: the key split at every "__", and its value
Kw(segs, val) == [key |-> segs, val |-> val]

_SUPPORTED_FILTERS ==
  { "gt", "lt", "gte", "lte", "ne", "is", "is_not", "like", "notlike", "ilike",
    "notilike", "startswith", "endswith", "contains", "match", "between", "in",
    "not_in" }

MultiValued == {"in", "not_in", "between"}

\* the table lookup without the check of the value's shape
_get_sqlalchemy_filter_unchecked(operator, value) ==
  [err |-> "none", f |-> IF operator \in _SUPPORTED_FILTERS THEN operator ELSE "None"]

\* _get_sqlalchemy_filter(operator, value): raises ValueError for a
\* multi-valued operator whose value is no tuple/list/set, else returns the
\* table's entry ("None" when the operator is not in the table)
_get_sqlalchemy_filter(operator, value) ==
  IF operator \in MultiValued /\ value.t # "list"
    THEN [err |-> "ValueError", f |-> "None"]
    ELSE [err |-> "none",
          f |-> IF operator \in _SUPPORTED_FILTERS THEN operator ELSE "None"]

\* key.rsplit("__", 1): the operator is the last segment, the field name is
\* what stands before it
RSplitField(key) == SubSeq(key, 1, Len(key) - 1)
RSplitOp(key) == key[Len(key)]

\* getattr(model, field_name, None) is not None
HasColumn(c, fieldSegs) == Len(fieldSegs) = 1 /\ fieldSegs[1] \in Columns(c)

\* a compiled predicate: a comparison (kind "cmp") or an OR group
Cmp(field, op, val) == [kind |-> "cmp", field |-> field, op |-> op, val |-> val, alts |-> <<>>]
OrGroup(field, alts) == [kind |-> "or", field |-> field, op |-> "or", val |-> NoneVal, alts |-> alts]

\* the list comprehension of the OR branch (lines 284-293): every entry
\* asks _get_sqlalchemy_filter(or_key, value) with value the WHOLE mapping,
\* keeps the entry when a filter came back and applies it to or_value
RECURSIVE OrEntries(_, _, _)
OrEntries(value, i, acc) ==
  IF i > Len(value.d) THEN [err |-> "none", alts |-> acc]
  ELSE LET e == value.d[i]
           g == _get_sqlalchemy_filter(e.op, value)
       IN IF g.err # "none" THEN [err |-> g.err, alts |-> <<>>]
          ELSE IF g.f = "None" THEN OrEntries(value, i + 1, acc)
          ELSE OrEntries(value, i + 1, Append(acc, [op |-> g.f, val |-> e.val]))

\* one pass of the loop of _parse_filters over kwargs.items()
ParseOne(c, kw) ==
  IF Len(kw.key) > 1
    THEN IF ~HasColumn(c, RSplitField(kw.key))
           THEN [err |-> "ValueError", out |-> <<>>]
         ELSE IF RSplitOp(kw.key) = "or"
           THEN IF kw.val.t # "dict"
                  THEN [err |-> "AttributeError", out |-> <<>>]
                  ELSE LET o == OrEntries(kw.val, 1, <<>>)
                       IN IF o.err # "none" THEN [err |-> o.err, out |-> <<>>]
                          ELSE [err |-> "none", out |-> <<OrGroup(kw.key[1], o.alts)>>]
         ELSE LET g == _get_sqlalchemy_filter(RSplitOp(kw.key), kw.val)
              IN IF g.err # "none" THEN [err |-> g.err, out |-> <<>>]
                 ELSE IF g.f = "None" THEN [err |-> "none", out |-> <<>>]
                 \* column.between(value) lacks its second bound
                 ELSE IF g.f = "between" THEN [err |-> "TypeError", out |-> <<>>]
                 ELSE [err |-> "none", out |-> <<Cmp(kw.key[1], g.f, kw.val)>>]
    ELSE IF HasColumn(c, kw.key) /\ kw.val.t # "none"
           THEN [err |-> "none", out |-> <<Cmp(kw.key[1], "eq", kw.val)>>]
           ELSE [err |-> "none", out |-> <<>>]

RECURSIVE ParseFrom(_, _, _, _)
ParseFrom(c, kwargs, i, acc) ==
  IF i > Len(kwargs) THEN [err |-> "none", filters |-> acc]
  ELSE LET p == ParseOne(c, kwargs[i])
       IN IF p.err # "none" THEN [err |-> p.err, filters |-> <<>>]
          ELSE ParseFrom(c, kwargs, i + 1, acc \o p.out)

_parse_filters(c, kwargs) == ParseFrom(c, kwargs, 1, <<>>)

\* ------------------------------------------------- evaluating predicates
\* the value a row shows in a column
FieldVal(i, r, f) ==
  CASE f = "id" -> i
    [] f = "name" -> r.name
    [] f = "is_deleted" -> IF r.is_deleted THEN 1 ELSE 0
    [] f = "deleted_at" -> r.deleted_at
    [] OTHER -> r.updated_at

\* what the storage executor answers for the operators of _SUPPORTED_FILTERS
\* on scalar column values (patterns carry no wildcard; a comparison with
\* NULL is never true, IS NOT NULL always is on these non-null columns)
EvalOp(op, x, val) ==
  CASE op \in {"eq", "is", "like", "ilike", "startswith", "endswith", "contains", "match"}
         -> val.t = "scalar" /\ x = val.v
    [] op \in {"ne", "notlike", "notilike"} -> val.t = "scalar" /\ x # val.v
    [] op = "is_not" -> val.t = "none" \/ (val.t = "scalar" /\ x # val.v)
    [] op = "gt" -> val.t = "scalar" /\ x > val.v
    [] op = "lt" -> val.t = "scalar" /\ x < val.v
    [] op = "gte" -> val.t = "scalar" /\ x >= val.v
    [] op = "lte" -> val.t = "scalar" /\ x <= val.v
    [] op = "in" -> x \in val.l
    [] op = "not_in" -> x \notin val.l
    [] OTHER -> FALSE

\* or_(*or_filters); an or_() of nothing renders no condition
EvalPred(p, i, r) ==
  IF p.kind = "cmp" THEN EvalOp(p.op, FieldVal(i, r, p.field), p.val)
  ELSE Len(p.alts) = 0
       \/ \E k \in 1..Len(p.alts) : EvalOp(p.alts[k].op, FieldVal(i, r, p.field), p.alts[k].val)

\* .filter(*filters): the conjunction of the compiled predicates
Matching(table, filters) ==
  { i \in Ids : table[i].present
                /\ \A k \in 1..Len(filters) : EvalPred(filters[k], i, table[i]) }

\* ------------------------------------------------------ sessions, storage
NoSess == [open |-> FALSE, dirty |-> {}, work |-> EmptyTable]

NoRet == [kind |-> "None", n |-> 0, row |-> Absent, id |-> 0]
IntRet(n) == [kind |-> "int", n |-> n, row |-> Absent, id |-> 0]
BoolRet(b) == [kind |-> "bool", n |-> IF b THEN 1 ELSE 0, row |-> Absent, id |-> 0]
RowRet(i, r) == [kind |-> "row", n |-> 0, row |-> r, id |-> i]

\* the running state of one call: the committed table, the overlay of the
\* session the running body was handed, the pending exception, the storage
\* round trips made, the sessions open now and at the peak, and the log of
\* the wrapper invocations that have finished
Call0(d, s, given, failAt) ==
  [db |-> d,
   dirty |-> IF given THEN s.dirty ELSE {},
   work |-> IF given THEN s.work ELSE EmptyTable,
   tx |-> given,
   err |-> "none", cause |-> "none",
   step |-> 0, failAt |-> failAt,
   open |-> IF given THEN 1 ELSE 0,
   peak |-> IF given THEN 1 ELSE 0,
   opened |-> 0,
   commits |-> 0,
   ret |-> NoRet,
   wlog |-> <<>>]

\* what the session of the running body reads
View(st) == [i \in Ids |-> IF i \in st.dirty THEN st.work[i] ELSE st.db[i]]

SessView(d, s) == [i \in Ids |-> IF i \in s.dirty THEN s.work[i] ELSE d[i]]

Raise(st, e) ==
  IF st.err # "none" THEN st ELSE [st EXCEPT !.err = e, !.cause = e]

\* one round trip to the storage executor; the failAt-th one of the call fails
StorageCall(st) ==
  IF st.err # "none" THEN st
  ELSE IF st.step + 1 = st.failAt
         THEN [st EXCEPT !.step = @ + 1, !.err = "StorageError", !.cause = "StorageError"]
         ELSE [st EXCEPT !.step = @ + 1]

\* a commit that reports success and writes nothing
session_commit_lost(st) ==
  LET c == StorageCall(st)
  IN IF c.err # "none" THEN c
     ELSE [c EXCEPT !.dirty = {}, !.work = EmptyTable, !.tx = FALSE, !.commits = @ + 1]

\* await session.commit()
session_commit(st) ==
  LET c == StorageCall(st)
  IN IF c.err # "none" THEN c
     ELSE [c EXCEPT !.db = View(st), !.dirty = {}, !.work = EmptyTable,
                    !.tx = FALSE, !.commits = @ + 1]

\* a statement that writes row i of the session's overlay
Put(st, i, r) == [st EXCEPT !.dirty = @ \cup {i}, !.work[i] = r]

WLog(name, given, opened, bodyErr, exitErr, final) ==
  [method |-> name, given |-> given, opened |-> opened, bodyErr |-> bodyErr,
   exitErr |-> exitErr, final |-> final]

\* the session the wrapper hands to the body: the one found in kwargs, else
\* a new one with a transaction begun (lines 56-62)
SessionFor(st, given) ==
  IF given THEN st
  ELSE [st EXCEPT !.dirty = {}, !.work = EmptyTable, !.tx = TRUE,
                  !.open = @ + 1,
                  !.peak = Max(@, st.open + 1),
                  !.opened = @ + 1]

\* with_session(method), from the point the body has ended as b: a session
\* the wrapper opened is committed when the block is left normally with
\* its transaction still active, rolled back when it is left by an
\* exception, and closed; whatever was raised leaves as DBError
with_session(name, st, given, b) ==
  LET r == IF given
             THEN [b EXCEPT !.wlog = Append(@, WLog(name, TRUE, 0, b.err, b.err, "Joined"))]
             ELSE LET x == IF b.err = "none" /\ b.tx THEN session_commit(b) ELSE b
                  IN [x EXCEPT !.dirty = st.dirty, !.work = st.work, !.tx = st.tx,
                               !.open = st.open,
                               !.wlog = Append(@, WLog(name, FALSE, 1, b.err, x.err,
                                                 IF x.err = "none" THEN "Committed"
                                                                   ELSE "RolledBack"))]
  IN IF r.err # "none" THEN [r EXCEPT !.err = "DBError", !.ret = NoRet] ELSE r

\* ------------------------------------------------------- the operations
\* the arguments of a call: filter kwargs, payload, allow_multiple, commit,
\* return_columns given, and the primary key a created row receives
Args(kw, obj, allow, commit, retcols, id) ==
  [kw |-> kw, obj |-> obj, allow |-> allow, commit |-> commit, retcols |-> retcols, id |-> id]

\* datetime.now() during the running call
Now == ncalls + 1

MinOf(S) == CHOOSE i \in S : \A j \in S : i <= j

\* count (lines 486-503)
count_body(args, st) ==
  LET p == _parse_filters(cfg, args.kw)
  IN IF p.err # "none" THEN Raise(st, p.err)
     ELSE LET c == StorageCall(st)
          IN IF c.err # "none" THEN c
             ELSE [c EXCEPT !.ret = IntRet(Cardinality(Matching(View(st), p.filters)))]

count(args, st, given) ==
  with_session("count", st, given, count_body(args, SessionFor(st, given)))

\* "await cls.count(**kwargs)" inside update, db_delete and delete: kwargs
\* holds the filters only, so the wrapper of count finds no session in it
GuardCount(args, st) == count(args, st, FALSE)

\* exists (lines 477-484)
exists_body(args, st) ==
  LET p == _parse_filters(cfg, args.kw)
  IN IF p.err # "none" THEN Raise(st, p.err)
     ELSE LET c == StorageCall(st)
          IN IF c.err # "none" THEN c
             ELSE [c EXCEPT !.ret = BoolRet(Matching(View(st), p.filters) # {})]

exists(args, st, given) ==
  with_session("exists", st, given, exists_body(args, SessionFor(st, given)))

\* get (lines 414-438), select (lines 395-412): the first row of the result
get_body(args, st) ==
  LET p == _parse_filters(cfg, args.kw)
  IN IF p.err # "none" THEN Raise(st, p.err)
     ELSE LET c == StorageCall(st)
              m == Matching(View(st), p.filters)
          IN IF c.err # "none" THEN c
             ELSE IF m = {} THEN [c EXCEPT !.ret = NoRet]
             ELSE [c EXCEPT !.ret = RowRet(MinOf(m), View(st)[MinOf(m)])]

get(args, st, given) ==
  with_session("get", st, given, get_body(args, SessionFor(st, given)))

\* create (lines 382-393)
create_body(args, st) ==
  LET a == Put(st, args.id, NewRow(args.obj.value))
      c == IF args.commit THEN session_commit(a) ELSE a
  IN IF c.err # "none" THEN c
     ELSE [c EXCEPT !.ret = RowRet(args.id, NewRow(args.obj.value))]

create(args, st, given) ==
  with_session("create", st, given, create_body(args, SessionFor(st, given)))

\* an UPDATE on an autocommitting connection: it writes the committed table
ExecUpdateAutocommit(st, filters, field, value, stamp) ==
  LET c == StorageCall(st)
      v == View(st)
      m == Matching(v, filters)
  IN IF c.err # "none" THEN c
     ELSE [c EXCEPT
             !.db = [i \in Ids |->
                       IF i \in m
                         THEN [v[i] EXCEPT !.name = IF field = "name" THEN value ELSE @,
                                           !.updated_at = IF stamp THEN Now ELSE @]
                         ELSE @[i]]]

\* update(cls.__model__).filter(*filters).values(update_data)
ExecUpdate(st, filters, field, value, stamp) ==
  LET c == StorageCall(st)
      v == View(st)
      m == Matching(v, filters)
  IN IF c.err # "none" THEN c
     ELSE [c EXCEPT
             !.dirty = @ \cup m,
             !.work = [i \in Ids |->
                         IF i \in m
                           THEN [v[i] EXCEPT !.name = IF field = "name" THEN value ELSE @,
                                             !.updated_at = IF stamp THEN Now ELSE @]
                           ELSE @[i]]]

\* update (lines 692-752)
update_body(args, st) ==
  LET g == IF ~args.allow THEN GuardCount(args, st) ELSE st
  IN IF g.err # "none" THEN g
     ELSE IF ~args.allow /\ g.ret.n > 1 THEN Raise(g, "ValueError")
     ELSE LET stamp == updated_at_column \in cfg
              keys == {args.obj.field} \cup (IF stamp THEN {updated_at_column} ELSE {})
              p == _parse_filters(cfg, args.kw)
          IN IF keys \ Columns(cfg) # {} THEN Raise(g, "ValueError")
             ELSE IF p.err # "none" THEN Raise(g, p.err)
             ELSE LET m == Matching(View(g), p.filters)
                      e == [ExecUpdate(g, p.filters, args.obj.field, args.obj.value, stamp)
                              EXCEPT !.ret = NoRet]
                  IN IF args.retcols
                       THEN IF e.err # "none" \/ m = {} THEN e
                            ELSE [e EXCEPT !.ret = RowRet(MinOf(m), e.work[MinOf(m)])]
                       ELSE IF args.commit THEN session_commit(e) ELSE e

update(args, st, given) ==
  with_session("update", st, given, update_body(args, SessionFor(st, given)))

\* delete(cls.__model__).filter(*filters)
ExecDelete(st, filters) ==
  LET c == StorageCall(st)
      m == Matching(View(st), filters)
  IN IF c.err # "none" THEN c
     ELSE [c EXCEPT !.dirty = @ \cup m,
                    !.work = [i \in Ids |-> IF i \in m THEN Absent ELSE @[i]]]

\* a soft delete that sets the flag and leaves the timestamp
ExecSoftDeleteFlagOnly(st, filters) ==
  LET c == StorageCall(st)
      v == View(st)
      m == Matching(v, filters)
  IN IF c.err # "none" THEN c
     ELSE [c EXCEPT
             !.dirty = @ \cup m,
             !.work = [i \in Ids |->
                         IF i \in m THEN [v[i] EXCEPT !.is_deleted = TRUE] ELSE @[i]]]

\* update(cls.__model__).filter(*filters).values(is_deleted=True, deleted_at=now)
ExecSoftDelete(st, filters) ==
  LET c == StorageCall(st)
      v == View(st)
      m == Matching(v, filters)
  IN IF c.err # "none" THEN c
     ELSE IF deleted_at_column \notin cfg THEN Raise(c, "CompileError")
     ELSE [c EXCEPT
             !.dirty = @ \cup m,
             !.work = [i \in Ids |->
                         IF i \in m
                           THEN [v[i] EXCEPT !.is_deleted = TRUE, !.deleted_at = Now]
                           ELSE @[i]]]

\* db_delete (lines 754-772)
db_delete_body(args, st) ==
  LET g == IF ~args.allow THEN [GuardCount(args, st) EXCEPT !.ret = NoRet] ELSE st
      n == IF ~args.allow THEN GuardCount(args, st).ret.n ELSE 0
      p == _parse_filters(cfg, args.kw)
  IN IF g.err # "none" THEN g
     ELSE IF ~args.allow /\ n > 1 THEN Raise(g, "ValueError")
     ELSE IF p.err # "none" THEN Raise(g, p.err)
     ELSE LET e == ExecDelete(g, p.filters)
          IN IF args.commit THEN session_commit(e) ELSE e

db_delete(args, st, given) ==
  with_session("db_delete", st, given, db_delete_body(args, SessionFor(st, given)))

\* delete, called with filters and no db_row (lines 774-784, 799-822)
delete_body(args, st) ==
  LET p == _parse_filters(cfg, args.kw)
      c == GuardCount(args, st)
      g == [c EXCEPT !.ret = NoRet]
  IN IF p.err # "none" THEN Raise(st, p.err)
     ELSE IF g.err # "none" THEN g
     ELSE IF c.ret.n = 0 THEN Raise(g, "ValueError")
     ELSE IF ~args.allow /\ c.ret.n > 1 THEN Raise(g, "ValueError")
     ELSE LET e == IF is_deleted_column \in cfg
                     THEN ExecSoftDelete(g, p.filters)
                     ELSE ExecDelete(g, p.filters)
          IN IF args.commit THEN session_commit(e) ELSE e

delete(args, st, given) ==
  with_session("delete", st, given, delete_body(args, SessionFor(st, given)))

\* "cls.create(instance)" of upsert: create takes obj by keyword only, so
\* the wrapper's "method(cls, *args, **kwargs)" raises TypeError
create_positional_body(args, st) == Raise(st, "TypeError")

create_positional(args, st) ==
  with_session("create", st, FALSE, create_positional_body(args, SessionFor(st, FALSE)))

\* upsert (lines 447-475); it is not wrapped by with_session.  In the
\* update branch the argument "db" is an unbound name: NameError
upsert(args, st) ==
  LET g == get([args EXCEPT !.kw = <<Kw(<<"id">>, Scalar(args.id))>>], st, FALSE)
  IN IF g.err # "none" THEN g
     ELSE IF g.ret.kind = "None" THEN create_positional(args, g)
     ELSE [Raise(g, "NameError") EXCEPT !.ret = NoRet]

\* ------------------------------------------------------------ the inputs
OrOf(e1, e2) == DictVal(<<e1, e2>>)
Entry(op, val) == [op |-> op, val |-> val]

\* filter kwargs handed to get: bare keys, supported and unsupported
\* operators, multi-valued operators with and without a sequence, OR groups
KwSet ==
  { <<>>, <<Kw(<<"nofield", "gt">>, Scalar(1))>>, <<Kw(<<"nofield">>, Scalar(1))>>,
    <<Kw(<<"name", "or">>, Scalar(1))>> }
  \cup { <<Kw(<<"name">>, v)>> : v \in {Scalar(1), Scalar(2), NoneVal} }
  \cup { <<Kw(<<"name", op>>, Scalar(1))>> : op \in {"lte", "ne", "regex", "eq", ""} }
  \cup { <<Kw(<<"name", op>>, v)>> :
           op \in MultiValued, v \in {Scalar(1), NoneVal, ListVal({1, 2})} }
  \cup { <<Kw(<<"name", "or">>, OrOf(Entry("lt", Scalar(2)), e))>> :
           e \in { Entry("gt", Scalar(2)), Entry("regex", Scalar(2)),
                   Entry("in", ListVal({2})), Entry("not_in", Scalar(2)),
                   Entry("between", ListVal({1, 2})) } }
  \cup { <<Kw(<<"name", "regex">>, Scalar(1)), Kw(<<"id">>, Scalar(1))>>,
          <<Kw(<<"id">>, Scalar(1)), Kw(<<"name", "in">>, Scalar(1))>> }

\* filter kwargs handed to the mutations; to exists and count
KwMut ==
  { <<>>,
    <<Kw(<<"name">>, Scalar(1))>>,
    <<Kw(<<"name">>, Scalar(2))>>,
    <<Kw(<<"name", "regex">>, Scalar(1))>>,
    <<Kw(<<"name", "in">>, Scalar(1))>>,
    <<Kw(<<"name", "or">>, OrOf(Entry("lt", Scalar(2)), Entry("in", ListVal({2}))))>> }

KwSmall ==
  { <<>>,
    <<Kw(<<"name">>, Scalar(1))>>,
    <<Kw(<<"name", "regex">>, Scalar(1))>>,
    <<Kw(<<"name", "in">>, Scalar(1))>> }

\* update payloads: a real column, and a key that is no column
ObjSet == { [field |-> "name", value |-> 2], [field |-> "nofield", value |-> 1] }

NoKw == <<>>
NoObj == [field |-> "name", value |-> 0]

\* ------------------------------------------------ sorting and pagination
\* sort_columns / sort_orders as they are passed: None, one string, a list
NoneArg == [t |-> "none", s |-> <<>>]
StrArg(x) == [t |-> "str", s |-> <<x>>]
ListArg(l) == [t |-> "list", s |-> l]

\* the truth value Python gives the argument: None and [] are false
Truthy(a) == a.t = "str" \/ (a.t = "list" /\ Len(a.s) > 0)

\* limit: None or an integer
NoLimit == [some |-> FALSE, n |-> 0]
Limit(n) == [some |-> TRUE, n |-> n]

Min(a, b) == IF a <= b THEN a ELSE b

NoOrder == [err |-> "none", order_by |-> <<>>]
SortError == [err |-> "ValueError", order_by |-> <<>>]

\* _apply_sorting (lines 307-348): the ORDER BY list, or ValueError
_apply_sorting(c, sort_columns, sort_orders) ==
  IF Truthy(sort_orders) /\ ~Truthy(sort_columns) THEN SortError
  ELSE IF ~Truthy(sort_columns) THEN NoOrder
  ELSE LET cols == sort_columns.s
           orders == IF sort_orders.t = "str"
                       THEN [k \in 1..Len(cols) |-> sort_orders.s[1]]
                       ELSE sort_orders.s
           validated == IF Truthy(sort_orders) THEN orders
                        ELSE [k \in 1..Len(cols) |-> "asc"]
       IN IF Truthy(sort_orders) /\ Len(cols) # Len(orders) THEN SortError
          ELSE IF Truthy(sort_orders)
                  /\ \E k \in 1..Len(orders) : orders[k] \notin {"asc", "desc"}
            THEN SortError
          ELSE IF \E k \in 1..Len(cols) : cols[k] \notin Columns(c) THEN SortError
          ELSE [err |-> "none",
                order_by |-> [k \in 1..Len(cols) |->
                                [column |-> cols[k], order |-> validated[k]]]]

NoStmt == [err |-> "none", built |-> FALSE, filters |-> <<>>, order_by |-> <<>>]

\* select (lines 395-412): the statement, with its WHERE and ORDER BY
select(c, sort_columns, sort_orders, kwargs) ==
  LET p == _parse_filters(c, kwargs)
      s == IF Truthy(sort_columns) THEN _apply_sorting(c, sort_columns, sort_orders)
           ELSE NoOrder
  IN IF p.err # "none" THEN [NoStmt EXCEPT !.err = p.err]
     ELSE IF s.err # "none" THEN [NoStmt EXCEPT !.err = s.err]
     ELSE [err |-> "none", built |-> TRUE, filters |-> p.filters, order_by |-> s.order_by]

\* the orders in which the storage executor scans the table where no
\* ORDER BY decides: the place of every primary key, upwards or downwards
Scans == { [i \in Ids |-> i], [i \in Ids |-> MaxRows + 1 - i] }

\* row i precedes row j in the result: by the k-th and later ORDER BY keys,
\* and by the executor's scan where ORDER BY leaves the two rows equal
RECURSIVE RowBefore(_, _, _, _, _, _)
RowBefore(v, order_by, k, scan, i, j) ==
  IF k > Len(order_by) THEN scan[i] < scan[j]
  ELSE LET x == FieldVal(i, v[i], order_by[k].column)
           y == FieldVal(j, v[j], order_by[k].column)
       IN IF x = y THEN RowBefore(v, order_by, k + 1, scan, i, j)
          ELSE IF order_by[k].order = "asc" THEN x < y ELSE x > y

\* the rows m in the order the executor returns them
ResultOrder(v, m, order_by, scan) ==
  CHOOSE s \in [1..Cardinality(m) -> m] :
    \A a, b \in 1..Cardinality(m) :
      a < b => RowBefore(v, order_by, 1, scan, s[a], s[b])

\* a LIMIT applied to the whole result, the OFFSET dropped
ExecPageNoOffset(s, offset, limit) ==
  IF limit.some THEN SubSeq(s, 1, Min(limit.n, Len(s))) ELSE s

\* OFFSET offset LIMIT limit applied by the executor to the ordered result
ExecPage(s, offset, limit) ==
  LET rest == IF offset >= Len(s) THEN <<>> ELSE SubSeq(s, offset + 1, Len(s))
  IN IF limit.some THEN SubSeq(rest, 1, Min(limit.n, Len(rest))) ELSE rest

\* the response of get_multi: the data, and the total count when asked for
PageRet(data, counted, total) ==
  [kind |-> "page", n |-> total, row |-> Absent, id |-> 0, data |-> data,
   counted |-> counted]

NoQuery ==
  [sort_columns |-> NoneArg, sort_orders |-> NoneArg, offset |-> 0, limit |-> NoLimit,
   return_total_count |-> FALSE, return_as_model |-> FALSE, stmt |-> NoStmt]

\* get_multi (lines 505-558), called without schema_to_select
get_multi_body(args, q, scan, st) ==
  IF (q.limit.some /\ q.limit.n < 0) \/ q.offset < 0 THEN Raise(st, "ValueError")
  ELSE LET s == select(cfg, q.sort_columns, q.sort_orders, args.kw)
       IN IF s.err # "none" THEN Raise(st, s.err)
          ELSE LET c == StorageCall(st)
                   v == View(st)
                   all == ResultOrder(v, Matching(v, s.filters), s.order_by, scan)
                   rows == ExecPage(all, IF q.offset # 0 THEN q.offset ELSE 0, q.limit)
                   data == [k \in 1..Len(rows) |-> [id |-> rows[k], row |-> v[rows[k]]]]
                   t == IF q.return_total_count THEN GuardCount(args, c) ELSE c
               IN IF c.err # "none" THEN c
                  ELSE IF t.err # "none" THEN t
                  ELSE IF q.return_as_model THEN Raise(t, "ValueError")
                  ELSE [t EXCEPT !.ret = PageRet(data, q.return_total_count,
                                                 IF q.return_total_count THEN t.ret.n ELSE 0)]

get_multi(args, q, scan, st, given) ==
  with_session("get_multi", st, given, get_multi_body(args, q, scan, SessionFor(st, given)))

\* ------------------------------------------------------------ joined rows
\* names are sequences of characters, so that str.startswith, slicing and
\* rstrip act on them as they do in the code
S_id == <<"i", "d">>
S_name == <<"n", "a", "m", "e">>
S_owner == <<"o", "w", "n", "e", "r">>

temp_prefix == <<"j", "o", "i", "n", "e", "d", "_", "_">>

\* the primary entity's columns, and the joined entity: its __tablename__,
\* its columns in table order (owner refers to the primary entity's id)
PrimaryColumns == <<S_id, S_name>>
JoinedTableName == <<"c", "h", "i", "l", "d">>
JoinedColumns == <<S_id, S_owner>>
JoinedKind == {"owner"}

\* _get_primary_key(join.model)
_get_primary_key == S_id

KidIds == 1..MaxKids
NoKid == [present |-> FALSE, owner |-> 0]
NoJoined == [k \in KidIds |-> NoKid]

\* Python values of a result mapping: None, an integer, a list of
\* mappings, a mapping (a function from names to values)
PyNone == [t |-> "null", v |-> 0, items |-> <<>>, d |-> <<>>]
PyInt(n) == [t |-> "int", v |-> n, items |-> <<>>, d |-> <<>>]
PyList(items) == [t |-> "list", v |-> 0, items |-> items, d |-> <<>>]
PyDict(d) == [t |-> "dict", v |-> 0, items |-> <<>>, d |-> d]

\* d[k] = v
SetItem(d, k, v) == [x \in (DOMAIN d) \cup {k} |-> IF x = k THEN v ELSE d[x]]

StartsWith(s, p) == Len(p) <= Len(s) /\ SubSeq(s, 1, Len(p)) = p

\* s.rstrip("_")
RECURSIVE RStrip(_)
RStrip(s) ==
  IF Len(s) > 0 /\ s[Len(s)] = "_" THEN RStrip(SubSeq(s, 1, Len(s) - 1)) ELSE s

\* the fields of a JoinConfig the code reads; join_prefix <<>> is None, the
\* model is the joined entity, schema_to_select "None" selects every column
\* and "NoPk" is a schema that declares owner only
JoinConfig(join_prefix, join_type, relationship_type, schema_to_select, filters, alias) ==
  [join_prefix |-> join_prefix, join_type |-> join_type,
   relationship_type |-> relationship_type, schema_to_select |-> schema_to_select,
   filters |-> filters, alias |-> alias]

\* _extract_matching_columns_from_schema (lines 79-119): the fields
\* projected, and the label of a column
ProjectedFields(schema) == IF schema = "None" THEN JoinedColumns ELSE <<S_owner>>

ColumnLabel(prefix, field, use_temporary_prefix) ==
  (IF use_temporary_prefix THEN temp_prefix ELSE <<>>) \o prefix \o field

\* the kids the ON clause pairs with parent p, the all-NULL row (0) of an
\* outer join that pairs none, and then the join's filters in the WHERE
\* clause, which no NULL column satisfies
JoinMatches(join, p) ==
  LET on == {k \in KidIds : joined[k].present /\ joined[k].owner = p}
      rows == IF on = {} /\ join.join_type = "left" THEN {0} ELSE on
  IN UNION { {k \in rows : IF k = 0 THEN Len(f) = 0
                           ELSE \A x \in 1..Len(f) : EvalPred(f[x], k, joined[k])} :
             f \in {_parse_filters(JoinedKind, join.filters).filters} }

\* the tuples of the join: a parent and, for every join, the kid paired
JoinTuples(parents, joins) ==
  {t \in [p : parents, ks : [1..Len(joins) -> KidIds \cup {0}]] :
     \A j \in 1..Len(joins) : t.ks[j] \in JoinMatches(joins[j], t.p)}

RECURSIVE KidsLess(_, _, _)
KidsLess(a, b, j) ==
  IF j > Len(a) THEN FALSE
  ELSE a[j] < b[j] \/ (a[j] = b[j] /\ KidsLess(a, b, j + 1))

TupleLess(a, b) == a.p < b.p \/ (a.p = b.p /\ KidsLess(a.ks, b.ks, 1))

RECURSIVE SortTuples(_)
SortTuples(S) ==
  IF S = {} THEN <<>>
  ELSE CHOOSE out \in { <<m>> \o SortTuples(S \ {m}) :
                          m \in {x \in S : \A y \in S \ {x} : TupleLess(x, y)} } : TRUE

\* dict(row._mapping): the items of a result row in column order, each with
\* the join (0: the primary entity) and the field it was selected from
PrimaryItems(v, p) ==
  << [key |-> S_id, val |-> PyInt(p), join |-> 0, field |-> S_id],
     [key |-> S_name, val |-> PyInt(v[p].name), join |-> 0, field |-> S_name] >>

KidVal(k, field) ==
  IF k = 0 THEN PyNone
  ELSE IF field = S_id THEN PyInt(k) ELSE PyInt(joined[k].owner)

JoinItems(j, join, k, use_temporary_prefix) ==
  LET fs == ProjectedFields(join.schema_to_select)
  IN [x \in 1..Len(fs) |->
        [key |-> ColumnLabel(join.join_prefix, fs[x], use_temporary_prefix),
         val |-> KidVal(k, fs[x]), join |-> j, field |-> fs[x]]]

RECURSIVE AllJoinItems(_, _, _, _)
AllJoinItems(t, joins, j, use_temporary_prefix) ==
  IF j > Len(joins) THEN <<>>
  ELSE JoinItems(j, joins[j], t.ks[j], use_temporary_prefix)
         \o AllJoinItems(t, joins, j + 1, use_temporary_prefix)

FlatRow(v, t, joins, use_temporary_prefix) ==
  PrimaryItems(v, t.p) \o AllJoinItems(t, joins, 1, use_temporary_prefix)

\* the rows the executor returns for the joined statement; without ORDER BY
\* it scans the tuples upwards or downwards
ExecJoined(v, parents, joins, use_temporary_prefix, reversed) ==
  CHOOSE rows \in
    { [i \in 1..Len(ts) |->
         FlatRow(v, IF reversed THEN ts[Len(ts) + 1 - i] ELSE ts[i], joins,
                 use_temporary_prefix)] :
        ts \in {SortTuples(JoinTuples(parents, joins))} } : TRUE

\* ---------------------------------------------------- nesting reconciler
\* a _handle_one_to_many that never starts a new element once the list has one
_handle_one_to_many_merged(nested_data, nested_key, nested_field, value) ==
  LET nd == IF nested_key \notin DOMAIN nested_data \/ nested_data[nested_key].t # "list"
              THEN SetItem(nested_data, nested_key, PyList(<<>>))
              ELSE nested_data
      items == nd[nested_key].items
      n == Len(items)
  IN IF n = 0
       THEN SetItem(nd, nested_key, PyList(<<SetItem(<<>>, nested_field, value)>>))
       ELSE SetItem(nd, nested_key,
                    PyList([items EXCEPT ![n] = SetItem(@, nested_field, value)]))

\* _handle_one_to_many (lines 141-150)
_handle_one_to_many(nested_data, nested_key, nested_field, value) ==
  LET nd == IF nested_key \notin DOMAIN nested_data \/ nested_data[nested_key].t # "list"
              THEN SetItem(nested_data, nested_key, PyList(<<>>))
              ELSE nested_data
      items == nd[nested_key].items
      n == Len(items)
  IN IF n = 0 \/ nested_field \in DOMAIN items[n]
       THEN SetItem(nd, nested_key,
                    PyList(Append(items, SetItem(<<>>, nested_field, value))))
       ELSE SetItem(nd, nested_key,
                    PyList([items EXCEPT ![n] = SetItem(@, nested_field, value)]))

\* _handle_one_to_one (lines 153-157)
_handle_one_to_one(nested_data, nested_key, nested_field, value) ==
  LET nd == IF nested_key \notin DOMAIN nested_data \/ nested_data[nested_key].t # "dict"
              THEN SetItem(nested_data, nested_key, PyDict(<<>>))
              ELSE nested_data
  IN SetItem(nd, nested_key, PyDict(SetItem(nd[nested_key].d, nested_field, value)))

\* the key a join's columns are nested under (lines 177-181, 209-213)
NestedKey(join) ==
  IF join.join_prefix # <<>> THEN RStrip(join.join_prefix) ELSE JoinedTableName

\* the inner loop of lines 171-193: the first join whose marker and prefix
\* lead the key (0: no join)
RECURSIVE NestingJoin(_, _, _)
NestingJoin(key, join_definitions, j) ==
  IF j > Len(join_definitions) THEN 0
  ELSE IF StartsWith(key, temp_prefix \o join_definitions[j].join_prefix) THEN j
  ELSE NestingJoin(key, join_definitions, j + 1)

\* one pass of the loop over data.items() (lines 169-204)
NestItem(nested_data, key, value, join_definitions) ==
  LET j == NestingJoin(key, join_definitions, 1)
  IN IF j # 0
       THEN LET join == join_definitions[j]
                full_prefix == temp_prefix \o join.join_prefix
                nested_field == SubSeq(key, Len(full_prefix) + 1, Len(key))
            IN IF join.relationship_type = "one-to-many"
                 THEN _handle_one_to_many(nested_data, NestedKey(join), nested_field, value)
                 ELSE _handle_one_to_one(nested_data, NestedKey(join), nested_field, value)
       ELSE SetItem(nested_data,
                    IF StartsWith(key, temp_prefix)
                      THEN SubSeq(key, Len(temp_prefix) + 1, Len(key)) ELSE key,
                    value)

RECURSIVE NestItems(_, _, _, _)
NestItems(nested_data, data, i, join_definitions) ==
  IF i > Len(data) THEN nested_data
  ELSE CHOOSE out \in
         { NestItems(nd, data, i + 1, join_definitions) :
             nd \in {NestItem(nested_data, data[i].key, data[i].val, join_definitions)} } :
         TRUE

\* any(item[join_primary_key] is None for item in items), from item i on:
\* a KeyError at the first item without the key, unless an item before it
\* ended the search
RECURSIVE AnyNullKey(_, _)
AnyNullKey(items, i) ==
  IF i > Len(items) THEN "False"
  ELSE IF _get_primary_key \notin DOMAIN items[i] THEN "KeyError"
  ELSE IF items[i][_get_primary_key].t = "null" THEN "True"
  ELSE AnyNullKey(items, i + 1)

\* a reconciliation that leaves the lists and objects as they were nested
CollapseJoinSkipped(r, join) == r

\* one pass of the loop of lines 207-226
CollapseJoin(r, join) ==
  IF r.err # "none" THEN r
  ELSE LET nk == NestedKey(join)
           d == r.d
           a == IF join.relationship_type = "one-to-many" /\ nk \in DOMAIN d
                   /\ d[nk].t = "list"
                  THEN AnyNullKey(d[nk].items, 1) ELSE "False"
           d1 == IF a = "True" THEN SetItem(d, nk, PyList(<<>>)) ELSE d
           d2 == IF nk \in DOMAIN d1 /\ d1[nk].t = "dict"
                    /\ _get_primary_key \in DOMAIN d1[nk].d
                    /\ d1[nk].d[_get_primary_key].t = "null"
                   THEN SetItem(d1, nk, PyNone) ELSE d1
       IN IF a = "KeyError" THEN [err |-> "KeyError", d |-> d]
          ELSE [err |-> "none", d |-> d2]

RECURSIVE CollapseJoins(_, _, _)
CollapseJoins(r, join_definitions, j) ==
  IF j > Len(join_definitions) THEN r
  ELSE CHOOSE out \in
         { CollapseJoins(c, join_definitions, j + 1) :
             c \in {CollapseJoin(r, join_definitions[j])} } : TRUE

\* _nest_join_data (lines 160-229)
_nest_join_data(data, join_definitions, nested_data) ==
  CHOOSE out \in
    { CollapseJoins([err |-> "none", d |-> nd], join_definitions, 1) :
        nd \in {NestItems(nested_data, data, 1, join_definitions)} } : TRUE

\* the loop of get_joined (lines 635-641)
RECURSIVE FoldRows(_, _, _, _)
FoldRows(r, data_list, i, join_definitions) ==
  IF i > Len(data_list) \/ r.err # "none" THEN r
  ELSE CHOOSE out \in
         { FoldRows(n, data_list, i + 1, join_definitions) :
             n \in {_nest_join_data(data_list[i], join_definitions, r.d)} } : TRUE

DictRet(d) == [kind |-> "dict", n |-> 0, row |-> Absent, id |-> 0, data |-> d]

\* ------------------------------------------------------------ get_joined
\* the single-join parameters of get_joined; join_model / join_on / alias:
\* whether one is passed, and the defaults of the others
NoSingle ==
  [join_model |-> FALSE, join_on |-> FALSE, join_prefix |-> <<>>,
   join_schema_to_select |-> "None", join_type |-> "left", alias |-> FALSE,
   join_filters |-> <<>>, relationship_type |-> "None"]

NoJoinCall ==
  [joins_config |-> <<>>, single |-> NoSingle, nest_joins |-> FALSE,
   join_definitions |-> <<>>, data_list |-> <<>>]

\* lines 594-609
join_definitions(jc) ==
  IF jc.single.join_model
    THEN Append(jc.joins_config,
                JoinConfig(jc.single.join_prefix, jc.single.join_type,
                           jc.single.relationship_type, jc.single.join_schema_to_select,
                           jc.single.join_filters, jc.single.alias))
    ELSE jc.joins_config

\* _prepare_and_apply_joins (lines 350-380): the first error it raises
RECURSIVE _prepare_and_apply_joins(_, _)
_prepare_and_apply_joins(joins_config, j) ==
  IF j > Len(joins_config) THEN "none"
  ELSE LET f == _parse_filters(JoinedKind, joins_config[j].filters)
       IN IF f.err # "none" THEN f.err
          ELSE IF joins_config[j].join_type \notin {"left", "inner"} THEN "ValueError"
          ELSE _prepare_and_apply_joins(joins_config, j + 1)

\* lines 616-630: the rows get_joined takes from the result
data_list(v, filters, defs, nest_joins, reversed) ==
  LET rows == ExecJoined(v, Matching(v, filters), defs, nest_joins, reversed)
  IN IF \E j \in 1..Len(defs) : defs[j].relationship_type = "one-to-many"
       THEN rows
       ELSE SubSeq(rows, 1, Min(1, Len(rows)))

\* get_joined (lines 560-644)
get_joined_body(args, jc, reversed, st) ==
  LET s == jc.single
  IN IF jc.joins_config # <<>>
          /\ (s.join_model \/ s.join_prefix # <<>> \/ s.join_on
              \/ s.join_schema_to_select # "None" \/ s.alias)
       THEN Raise(st, "ValueError")
     ELSE IF jc.joins_config = <<>> /\ ~s.join_model THEN Raise(st, "ValueError")
     ELSE LET defs == join_definitions(jc)
              e == _prepare_and_apply_joins(defs, 1)
              p == _parse_filters(cfg, args.kw)
          IN IF e # "none" THEN Raise(st, e)
             ELSE IF p.err # "none" THEN Raise(st, p.err)
             ELSE LET c == StorageCall(st)
                      rows == data_list(View(st), p.filters, defs, jc.nest_joins, reversed)
                      r == FoldRows([err |-> "none", d |-> <<>>], rows, 1, defs)
                  IN IF c.err # "none" THEN c
                     ELSE IF ~jc.nest_joins
                             /\ \E j \in 1..Len(defs) :
                                  defs[j].relationship_type = "one-to-many"
                       THEN Raise(c, "ValueError")
                     ELSE IF rows = <<>> THEN [c EXCEPT !.ret = NoRet]
                     ELSE IF ~jc.nest_joins
                       THEN [c EXCEPT !.ret = DictRet(NestItems(<<>>, rows[1], 1, <<>>))]
                     ELSE IF r.err # "none" THEN Raise(c, r.err)
                     ELSE [c EXCEPT !.ret = DictRet(r.d)]

get_joined(args, jc, reversed, st, given) ==
  with_session("get_joined", st, given,
               get_joined_body(args, jc, reversed, SessionFor(st, given)))

\* ------------------------------------------------- concurrent callers
CallerIds == 1..MaxCallers

\* a caller: where its call stands, the call, what its guard counted, the
\* uncommitted writes of its session, the rows its statement matched
NoCallers ==
  [p \in CallerIds |->
     [pc |-> "idle", op |-> "none", args |-> Args(NoKw, NoObj, FALSE, FALSE, FALSE, 0),
      counted |-> 0, dirty |-> {}, work |-> EmptyTable, touched |-> {}, err |-> "none"]]

\* ------------------------------------------------------- the caller's view
NoCall ==
  [op |-> "none", kw |-> NoKw, obj |-> NoObj, given |-> FALSE, allow |-> FALSE,
   commit |-> FALSE, retcols |-> FALSE, id |-> 0,
   err |-> "none", cause |-> "none", ret |-> NoRet, calls |-> 0, peak |-> 0, opened |-> 0,
   commits |-> 0, wlog |-> <<>>, compiled |-> FALSE, filters |-> <<>>, pre |-> {},
   present |-> {}, now |-> 0]

\* what the caller observes of a finished call r, with what the session it
\* ran on showed when it began: the rows present and the rows the compiled
\* filters matched
Outcome(op, args, given, r) ==
  LET p == _parse_filters(cfg, args.kw)
      v == IF given THEN SessView(db, sess) ELSE db
  IN [op |-> op, kw |-> args.kw, obj |-> args.obj, given |-> given, allow |-> args.allow,
      commit |-> args.commit, retcols |-> args.retcols, id |-> args.id,
      err |-> r.err, cause |-> r.cause, ret |-> r.ret, calls |-> r.step, peak |-> r.peak,
      opened |-> r.opened, commits |-> r.commits, wlog |-> r.wlog,
      compiled |-> p.err = "none", filters |-> p.filters,
      pre |-> IF p.err = "none" THEN Matching(v, p.filters) ELSE {},
      present |-> {i \in Ids : v[i].present},
      now |-> Now]

Givens == IF sess.open THEN BOOLEAN ELSE {FALSE}

\* the caller receives r: the committed table and, when the call ran on the
\* caller's session, that session's overlay are what the call left
Writes(op, args, given, r) ==
  /\ db' = r.db
  /\ sess' = IF given THEN [open |-> TRUE, dirty |-> r.dirty, work |-> r.work] ELSE sess
  /\ ncalls' = ncalls + 1
  /\ last' = Outcome(op, args, given, r)
  /\ UNCHANGED cfg

Returns(op, args, given, r) ==
  /\ Writes(op, args, given, r)
  /\ UNCHANGED <<query, joined, jcall, callers>>

Ready == last.op = "none" /\ ncalls < MaxCalls

FreeIds == {i \in Ids : ~db[i].present /\ i \notin sess.dirty}

\* ------------------------------------------------------------ the actions
Create(F) ==
  /\ Ready
  /\ FreeIds # {}
  /\ \E n \in Names, commit \in BOOLEAN, given \in Givens, f \in F :
       LET args == Args(NoKw, [field |-> "name", value |-> n], FALSE, commit, FALSE,
                        MinOf(FreeIds))
       IN Returns("create", args, given, create(args, Call0(db, sess, given, f), given))

Get(F) ==
  /\ Ready
  /\ \E kw \in KwSet, given \in Givens, f \in F :
       LET args == Args(kw, NoObj, FALSE, FALSE, FALSE, 0)
       IN Returns("get", args, given, get(args, Call0(db, sess, given, f), given))

Exists(F) ==
  /\ Ready
  /\ \E kw \in KwSmall, given \in Givens, f \in F :
       LET args == Args(kw, NoObj, FALSE, FALSE, FALSE, 0)
       IN Returns("exists", args, given, exists(args, Call0(db, sess, given, f), given))

Count(F) ==
  /\ Ready
  /\ \E kw \in KwSmall, given \in Givens, f \in F :
       LET args == Args(kw, NoObj, FALSE, FALSE, FALSE, 0)
       IN Returns("count", args, given, count(args, Call0(db, sess, given, f), given))

Update(F) ==
  /\ Ready
  /\ \E kw \in KwMut, obj \in ObjSet, allow \in BOOLEAN, commit \in BOOLEAN,
        retcols \in BOOLEAN, given \in Givens, f \in F :
       LET args == Args(kw, obj, allow, commit, retcols, 0)
       IN Returns("update", args, given, update(args, Call0(db, sess, given, f), given))

DbDelete(F) ==
  /\ Ready
  /\ \E kw \in KwMut, allow \in BOOLEAN, commit \in BOOLEAN, given \in Givens,
        f \in F :
       LET args == Args(kw, NoObj, allow, commit, FALSE, 0)
       IN Returns("db_delete", args, given,
                  db_delete(args, Call0(db, sess, given, f), given))

Delete(F) ==
  /\ Ready
  /\ \E kw \in KwMut, allow \in BOOLEAN, commit \in BOOLEAN, given \in Givens,
        f \in F :
       LET args == Args(kw, NoObj, allow, commit, FALSE, 0)
       IN Returns("delete", args, given, delete(args, Call0(db, sess, given, f), given))

Upsert(F) ==
  /\ Ready
  /\ \E i \in Ids, n \in Names, f \in F :
       LET args == Args(NoKw, [field |-> "name", value |-> n], FALSE, FALSE, FALSE, i)
       IN Returns("upsert", args, FALSE, upsert(args, Call0(db, sess, FALSE, f)))

\* the caller opens a session of its own, or closes it without committing
OpenSession ==
  /\ last.op = "none"
  /\ ~sess.open
  /\ sess' = [NoSess EXCEPT !.open = TRUE]
  /\ UNCHANGED <<db, cfg, ncalls, last, query, joined, jcall, callers>>

CloseSession ==
  /\ last.op = "none"
  /\ sess.open
  /\ sess' = NoSess
  /\ UNCHANGED <<db, cfg, ncalls, last, query, joined, jcall, callers>>

\* the caller takes the result and goes on
Return ==
  /\ last.op # "none"
  /\ last' = NoCall
  /\ query' = NoQuery
  /\ jcall' = NoJoinCall
  /\ UNCHANGED <<db, sess, cfg, ncalls, joined, callers>>

\* the committed tables a run starts from: rows 1..k as create left them,
\* primary keys handed out in order
InitTables ==
  { t \in [Ids -> {Absent} \cup {NewRow(n) : n \in Names}] :
      \A i, j \in Ids : (i < j /\ t[j].present) => t[i].present }

Init ==
  /\ db \in InitTables
  /\ sess = NoSess
  /\ cfg \in EntityKinds
  /\ ncalls = 0
  /\ last = NoCall
  /\ query = NoQuery
  /\ joined = NoJoined
  /\ jcall = NoJoinCall
  /\ callers = NoCallers

\* calls on a storage executor that does not fail
NoFailure == {0}

Next ==
  \/ Create(NoFailure) \/ Get(NoFailure) \/ Exists(NoFailure) \/ Count(NoFailure)
  \/ Update(NoFailure) \/ DbDelete(NoFailure) \/ Delete(NoFailure) \/ Upsert(NoFailure)
  \/ OpenSession \/ CloseSession \/ Return

Spec == Init /\ [][Next]_vars

\* one call, made from any committed table with or without a session of the
\* caller's open, on a storage executor whose f-th round trip of the call
\* fails (f = 0: none does)
InitFail ==
  /\ db \in InitTables
  /\ sess \in {NoSess, [NoSess EXCEPT !.open = TRUE]}
  /\ cfg \in EntityKinds
  /\ ncalls = MaxCalls - 1
  /\ last = NoCall
  /\ query = NoQuery
  /\ joined = NoJoined
  /\ jcall = NoJoinCall
  /\ callers = NoCallers

NextFail ==
  \/ Create(FailPoints) \/ Get(FailPoints) \/ Exists(FailPoints) \/ Count(FailPoints)
  \/ Update(FailPoints) \/ DbDelete(FailPoints) \/ Delete(FailPoints)
  \/ Upsert(FailPoints)
  \/ Return

SpecFail == InitFail /\ [][NextFail]_vars

\* ------------------------------------- select and get_multi: one call
\* filter kwargs, sort columns, sort orders, offsets and limits handed over
KwQuery == { <<>>, <<Kw(<<"name">>, Scalar(1))>> }

SortColumns ==
  { NoneArg, StrArg("name"), ListArg(<<"name", "id">>), ListArg(<<"nofield">>),
    ListArg(<<>>) }

SortOrders ==
  { NoneArg, StrArg("desc"), StrArg("up"), ListArg(<<"asc">>), ListArg(<<"desc", "asc">>) }

Offsets == -1..MaxPage
Limits == {NoLimit} \cup {Limit(n) : n \in -1..MaxPage}

\* return_total_count and return_as_model as passed
ResponseOptions ==
  { [return_total_count |-> TRUE, return_as_model |-> FALSE],
    [return_total_count |-> FALSE, return_as_model |-> FALSE],
    [return_total_count |-> TRUE, return_as_model |-> TRUE] }

\* select is no wrapped method: it opens no session and raises as it is
Select ==
  /\ Ready
  /\ \E kw \in KwQuery, sc \in SortColumns, so \in SortOrders :
       LET args == Args(kw, NoObj, FALSE, FALSE, FALSE, 0)
           s == select(cfg, sc, so, kw)
           st == Call0(db, sess, FALSE, 0)
       IN /\ Writes("select", args, FALSE, IF s.err # "none" THEN Raise(st, s.err) ELSE st)
          /\ query' = [NoQuery EXCEPT !.sort_columns = sc, !.sort_orders = so, !.stmt = s]
          /\ UNCHANGED <<joined, jcall, callers>>

GetMulti(F) ==
  /\ Ready
  /\ \E kw \in KwQuery, sc \in SortColumns, so \in SortOrders, offset \in Offsets,
        limit \in Limits, o \in ResponseOptions, scan \in Scans, given \in Givens,
        f \in F :
       LET args == Args(kw, NoObj, FALSE, FALSE, FALSE, 0)
           q == [NoQuery EXCEPT !.sort_columns = sc, !.sort_orders = so,
                                !.offset = offset, !.limit = limit,
                                !.return_total_count = o.return_total_count,
                                !.return_as_model = o.return_as_model]
           r == get_multi(args, q, scan, Call0(db, sess, given, f), given)
       IN /\ Writes("get_multi", args, given, r)
          /\ query' = [q EXCEPT !.stmt = IF r.step > 0 THEN select(cfg, sc, so, kw)
                                         ELSE NoStmt]
          /\ UNCHANGED <<joined, jcall, callers>>

NextQuery == Select \/ GetMulti(NoFailure) \/ Return

SpecQuery == InitFail /\ [][NextQuery]_vars

\* --------------------------------------------------- get_joined: one call
S_a == <<"a", "_">>

\* join prefixes: None, "a_", "a_b_"
Prefixes == {<<>>, S_a, <<"a", "_", "b", "_">>}
RelationshipTypes == {"one-to-one", "one-to-many"}

IdIsOne == <<Kw(<<"id">>, Scalar(1))>>

JoinConfigs ==
  { JoinConfig(p, t, r, "None", <<>>, FALSE) :
      p \in Prefixes, t \in {"left", "inner"}, r \in RelationshipTypes }
  \cup { JoinConfig(S_a, "left", r, "NoPk", <<>>, FALSE) : r \in RelationshipTypes }
  \cup { JoinConfig(S_a, "left", "one-to-many", "None", IdIsOne, FALSE) }

\* joins_config lists: one join, or two outer joins of the joined entity
\* (the second through an alias) under different prefixes
JoinLists ==
  { <<j>> : j \in JoinConfigs }
  \cup { <<JoinConfig(pp[1], "left", r1, "None", <<>>, FALSE),
           JoinConfig(pp[2], "left", r2, "None", <<>>, TRUE)>> :
           pp \in {x \in Prefixes \X Prefixes : x[1] # x[2]},
           r1 \in RelationshipTypes, r2 \in RelationshipTypes }

\* the single-join form: join_model with join_on, a prefix and a cardinality
SingleJoins ==
  { [NoSingle EXCEPT !.join_model = TRUE, !.join_on = TRUE, !.join_prefix = p,
                     !.relationship_type = r] :
      p \in Prefixes, r \in {"None"} \cup RelationshipTypes }

\* one single-join parameter passed, the others left at their defaults
Strays ==
  { [NoSingle EXCEPT !.join_model = TRUE], [NoSingle EXCEPT !.join_on = TRUE],
    [NoSingle EXCEPT !.join_prefix = S_a],
    [NoSingle EXCEPT !.join_schema_to_select = "NoPk"],
    [NoSingle EXCEPT !.alias = TRUE], [NoSingle EXCEPT !.join_filters = IdIsOne],
    [NoSingle EXCEPT !.join_type = "inner"],
    [NoSingle EXCEPT !.relationship_type = "one-to-many"] }

JoinForms ==
  { [joins_config |-> <<>>, single |-> s] : s \in {NoSingle} \cup SingleJoins \cup Strays }
  \cup { [joins_config |-> l, single |-> NoSingle] : l \in JoinLists }
  \cup { [joins_config |-> <<JoinConfig(S_a, "left", "one-to-many", "None", <<>>, FALSE)>>,
          single |-> s] : s \in Strays }

\* get_joined; without nest_joins the calls explored give every join a
\* prefix, so that no two columns of the result share a name
GetJoined(F) ==
  /\ Ready
  /\ \E kw \in {<<>>, IdIsOne}, form \in JoinForms, nest \in BOOLEAN, reversed \in BOOLEAN,
        given \in Givens, f \in F :
       LET args == Args(kw, NoObj, FALSE, FALSE, FALSE, 0)
           jc == [NoJoinCall EXCEPT !.joins_config = form.joins_config,
                                    !.single = form.single, !.nest_joins = nest]
           defs == join_definitions(jc)
           v == IF given THEN SessView(db, sess) ELSE db
       IN /\ nest \/ \A j \in 1..Len(defs) : defs[j].join_prefix # <<>>
          /\ \E r \in {get_joined(args, jc, reversed, Call0(db, sess, given, f), given)} :
               /\ Writes("get_joined", args, given, r)
               /\ jcall' = [jc EXCEPT
                              !.join_definitions = defs,
                              !.data_list =
                                 IF r.step > 0
                                   THEN data_list(v, _parse_filters(cfg, kw).filters, defs,
                                                  nest, reversed)
                                   ELSE <<>>]
          /\ UNCHANGED <<query, joined, callers>>

\* the primary entity's tables of the join calls: rows 1..k, one name; the
\* joined entity's tables: kids 1..k, each owned by a row that exists
InitJoin ==
  /\ db \in {t \in InitTables : \A i \in Ids : t[i].present => t[i].name = 1}
  /\ joined \in
       { t \in [KidIds -> {NoKid} \cup {[present |-> TRUE, owner |-> p] : p \in Ids}] :
           /\ \A i, j \in KidIds : (i < j /\ t[j].present) => t[i].present
           /\ \A k \in KidIds : t[k].present => db[t[k].owner].present }
  /\ sess = NoSess
  /\ cfg = {}
  /\ ncalls = MaxCalls - 1
  /\ last = NoCall
  /\ query = NoQuery
  /\ jcall = NoJoinCall
  /\ callers = NoCallers

NextJoin == GetJoined(NoFailure) \/ Return

SpecJoin == InitJoin /\ [][NextJoin]_vars

\* ------------------------------------------- callers that run concurrently
\* every caller makes one call without a session of its own; the call runs
\* one storage round trip at a time, the other callers' in between
RaceCalls ==
  LET kw == <<Kw(<<"name">>, Scalar(1))>>
  IN { [op |-> "update",
        args |-> Args(kw, [field |-> "name", value |-> 2], allow, TRUE, FALSE, 0)] :
         allow \in BOOLEAN }
     \cup { [op |-> "delete", args |-> Args(kw, NoObj, allow, TRUE, FALSE, 0)] :
              allow \in BOOLEAN }
     \cup { [op |-> "create",
              args |-> Args(NoKw, [field |-> "name", value |-> n], FALSE, TRUE, FALSE, 0)] :
              n \in Names }

\* the session the wrapper opened for caller p's call, as it stands now
CallerSession(p) ==
  [SessionFor(Call0(db, NoSess, FALSE, 0), FALSE)
     EXCEPT !.dirty = callers[p].dirty, !.work = callers[p].work]

Ends(p, e) ==
  callers' = [callers EXCEPT ![p].pc = "done", ![p].err = e, ![p].dirty = {},
                             ![p].work = EmptyTable]

Calls(p) ==
  /\ callers[p].pc = "idle"
  /\ \E c \in RaceCalls :
       callers' = [callers EXCEPT ![p].pc = "called", ![p].op = c.op, ![p].args = c.args]
  /\ UNCHANGED <<db, sess, cfg, ncalls, last, query, joined, jcall>>

\* create: the row is flushed and committed
Inserts(p) ==
  /\ callers[p].pc = "called" /\ callers[p].op = "create"
  /\ FreeIds # {}
  /\ LET r == create([callers[p].args EXCEPT !.id = MinOf(FreeIds)],
                     Call0(db, NoSess, FALSE, 0), FALSE)
     IN /\ db' = r.db
        /\ Ends(p, r.err)
  /\ UNCHANGED <<sess, cfg, ncalls, last, query, joined, jcall>>

\* "await cls.count(**kwargs)" of update (line 708) and delete (line 799)
Counts(p) ==
  /\ callers[p].pc = "called"
  /\ \/ callers[p].op = "update" /\ ~callers[p].args.allow
     \/ callers[p].op = "delete"
  /\ LET g == GuardCount(callers[p].args, CallerSession(p))
         n == g.ret.n
     IN IF g.err # "none" THEN Ends(p, g.err)
        ELSE IF callers[p].op = "delete" /\ n = 0 THEN Ends(p, "DBError")
        ELSE IF ~callers[p].args.allow /\ n > 1 THEN Ends(p, "DBError")
        ELSE callers' = [callers EXCEPT ![p].pc = "counted", ![p].counted = n]
  /\ UNCHANGED <<db, sess, cfg, ncalls, last, query, joined, jcall>>

\* "await session.execute(stmt)" (lines 750, 815, 818); the statement waits
\* while another caller's uncommitted statement holds a row it matches
Executes(p) ==
  /\ \/ callers[p].pc = "counted"
     \/ callers[p].pc = "called" /\ callers[p].op = "update" /\ callers[p].args.allow
  /\ LET a == callers[p].args
         s == CallerSession(p)
         f == _parse_filters(cfg, a.kw).filters
         m == Matching(View(s), f)
         e == IF callers[p].op = "update"
                THEN ExecUpdate(s, f, a.obj.field, a.obj.value, updated_at_column \in cfg)
              ELSE IF is_deleted_column \in cfg THEN ExecSoftDelete(s, f)
              ELSE ExecDelete(s, f)
     IN /\ \A q \in CallerIds \ {p} : callers[q].dirty \cap m = {}
        /\ IF e.err # "none" THEN Ends(p, "DBError")
           ELSE callers' = [callers EXCEPT ![p].pc = "executed", ![p].dirty = e.dirty,
                                           ![p].work = e.work, ![p].touched = m]
  /\ UNCHANGED <<db, sess, cfg, ncalls, last, query, joined, jcall>>

\* "await session.commit()" (lines 751, 821)
Commits(p) ==
  /\ callers[p].pc = "executed"
  /\ LET c == session_commit(CallerSession(p))
     IN /\ db' = c.db
        /\ Ends(p, c.err)
  /\ UNCHANGED <<sess, cfg, ncalls, last, query, joined, jcall>>

InitRace ==
  /\ db \in InitTables
  /\ sess = NoSess
  /\ cfg \in EntityKinds
  /\ ncalls = 0
  /\ last = NoCall
  /\ query = NoQuery
  /\ joined = NoJoined
  /\ jcall = NoJoinCall
  /\ callers = NoCallers

NextRace ==
  \/ \E p \in CallerIds : Calls(p)
  \/ \E p \in CallerIds : Inserts(p)
  \/ \E p \in CallerIds : Counts(p)
  \/ \E p \in CallerIds : Executes(p)
  \/ \E p \in CallerIds : Commits(p)

SpecRace == InitRace /\ [][NextRace]_vars


\* ============================================================ properties
PublicOps == {"create", "get", "exists", "count", "update", "db_delete", "delete"}
Mutations == {"create", "update", "db_delete", "delete"}

\* the table the session a call ran on shows after the call
After == IF last.given THEN SessView(db, sess) ELSE db

\* C1: during a public operation at most one session is open at any moment,
\* and a call handed the caller's session opens no session of its own (its
\* guard count included).
C1_OneSessionPerCall ==
  last.op \in PublicOps => (last.peak <= 1 /\ (last.given => last.opened = 0))

\* C2: a mutation called without a caller session in which a storage round
\* trip fails reaches the caller as one DBError and leaves the committed
\* table as it was before the call.
C2_FailureCommitsNothing ==
  [][(last'.op \in Mutations /\ ~last'.given /\ last'.cause = "StorageError")
       => (last'.err = "DBError" /\ db' = db /\ sess' = sess)]_vars

\* an update that matched rows, ran its statement and failed at the commit
C2_Witness ==
  /\ last.op = "update" /\ ~last.given /\ ~last.allow
  /\ last.cause = "StorageError" /\ last.err = "DBError"
  /\ last.calls = 4 /\ last.pre # {}

\* C3 as stated: a wrapper invocation without a session opens one session
\* and transaction and ends Committed when the body returned normally,
\* RolledBack when it raised; with a session it opens nothing.
C3_WrapperStates ==
  \A k \in 1..Len(last.wlog) :
    LET e == last.wlog[k]
    IN IF e.given THEN e.opened = 0 /\ e.final = "Joined"
       ELSE /\ e.opened = 1
            /\ e.bodyErr = "none" => e.final = "Committed"
            /\ e.bodyErr # "none" => e.final = "RolledBack"

\* C3 amended: ... ends Committed when the body returned normally and the
\* closing commit succeeded, RolledBack when the body raised or the closing
\* commit failed.  A rolled-back call leaves the committed table unchanged,
\* a committed create has stored its row, and a call on the caller's
\* session writes that session and nothing else.
C3_WrapperStatesAmended ==
  [][last'.op \in PublicOps =>
       /\ \A k \in 1..Len(last'.wlog) :
            LET e == last'.wlog[k]
            IN IF e.given THEN e.opened = 0 /\ e.final = "Joined"
               ELSE /\ e.opened = 1
                    /\ e.final = IF e.bodyErr = "none" /\ e.exitErr = "none"
                                   THEN "Committed" ELSE "RolledBack"
       /\ LET o == last'.wlog[Len(last'.wlog)]
          IN /\ o.given = last'.given
             /\ o.final = "RolledBack" => (db' = db /\ sess' = sess)
             /\ (o.final = "Committed" /\ last'.op = "create")
                  => (db'[last'.id] = NewRow(last'.obj.value) /\ sess' = sess)
             /\ (o.given /\ last'.op = "create" /\ last'.err = "none" /\ ~last'.commit)
                  => (db' = db /\ last'.id \in sess'.dirty)]_vars

\* a create whose body returned and whose closing commit failed
C3_Witness ==
  /\ last.op = "create" /\ ~last.given /\ ~last.commit
  /\ Len(last.wlog) = 1
  /\ last.wlog[1].bodyErr = "none" /\ last.wlog[1].exitErr = "StorageError"
  /\ last.wlog[1].final = "RolledBack"

\* C4: an update without allow_multiple whose filters match more than one
\* row fails with ValueError (as DBError) and writes nothing.
C4_NoMultiRowUpdate ==
  [][(last'.op = "update" /\ ~last'.allow /\ Cardinality(last'.pre) > 1)
       => (last'.err = "DBError" /\ last'.cause = "ValueError"
           /\ db' = db /\ sess' = sess)]_vars

C6_DeleteGuards ==
  [][(/\ last'.op = "delete" /\ last'.compiled
      /\ \/ last'.pre = {}
         \/ ~last'.allow /\ Cardinality(last'.pre) > 1)
       => (last'.err = "DBError" /\ last'.cause = "ValueError"
           /\ db' = db /\ sess' = sess)]_vars

\* C7: upsert returns the stored row of its primary key, carrying the
\* instance's values, whether the key was present or not.
C7_UpsertReturnsRow ==
  last.op = "upsert" =>
    /\ last.err = "none"
    /\ last.ret.kind = "row" /\ last.ret.id = last.id
    /\ last.ret.row.name = last.obj.value
    /\ db[last.id] = last.ret.row

\* some key field__operator names an operator outside the supported set
UnsupportedKey(kw) ==
  \E k \in 1..Len(kw) :
    Len(kw[k].key) > 1 /\ RSplitOp(kw[k].key) \notin (_SUPPORTED_FILTERS \cup {"or"})

\* C8: a call whose filters carry an unsupported operator suffix fails, and
\* makes no storage call.
C8_UnsupportedOperatorRaises ==
  (last.op \in PublicOps /\ UnsupportedKey(last.kw)) =>
    (last.err = "DBError" /\ last.calls = 0)

\* some in / not_in / between filter, at the top level or inside an OR
\* group, carries a value that is no list, tuple or set
ScalarMulti(kw) ==
  \E k \in 1..Len(kw) :
    /\ Len(kw[k].key) > 1
    /\ \/ RSplitOp(kw[k].key) \in MultiValued /\ kw[k].val.t # "list"
       \/ /\ RSplitOp(kw[k].key) = "or" /\ kw[k].val.t = "dict"
          /\ \E j \in 1..Len(kw[k].val.d) :
               kw[k].val.d[j].op \in MultiValued /\ kw[k].val.d[j].val.t # "list"

\* C9: a call whose filters give in, not_in or between a non-sequence value
\* fails with ValueError (as DBError) before any storage call.
C9_MultiValuedNeedsSequence ==
  (last.op \in PublicOps /\ ScalarMulti(last.kw)) =>
    (last.err = "DBError" /\ last.cause = "ValueError" /\ last.calls = 0)

C9_Witness ==
  /\ last.op = "get" /\ ScalarMulti(last.kw)
  /\ last.err = "DBError" /\ last.cause = "ValueError" /\ last.calls = 0

\* the only filter is field__or on a column, with a mapping as its value
OrGroupOnly(kw) ==
  /\ Len(kw) = 1 /\ Len(kw[1].key) > 1
  /\ RSplitOp(kw[1].key) = "or" /\ HasColumn(cfg, RSplitField(kw[1].key))
  /\ kw[1].val.t = "dict"

\* C10: compiling an OR group never raises, whatever operators its mapping
\* holds: a get filtered by one OR group returns normally.
C10_OrGroupNeverRaises ==
  (last.op = "get" /\ OrGroupOnly(last.kw)) => (last.compiled /\ last.err = "none")


\* a select or get_multi given sort directions and no sort column
OrdersWithoutColumns ==
  /\ last.op \in {"select", "get_multi"}
  /\ Truthy(query.sort_orders) /\ ~Truthy(query.sort_columns)

\* C11: a select, or a get_multi through it, that is given sort directions
\* and no sort column fails with ValueError; it builds no statement and
\* makes no storage call.
C11_OrdersWithoutColumnsRaise ==
  OrdersWithoutColumns =>
    (last.err # "none" /\ last.cause = "ValueError" /\ ~query.stmt.built
     /\ last.calls = 0)

BadPage == query.offset < 0 \/ (query.limit.some /\ query.limit.n < 0)

\* the primary keys of the rows a response holds, in its order
DataIds == [k \in 1..Len(last.ret.data) |-> last.ret.data[k].id]

\* C12: get_multi with a negative offset or limit fails with ValueError (as
\* DBError) before any storage call; a get_multi that returns holds exactly
\* the rows at positions offset+1 .. offset+limit of the filtered rows in
\* the order of the sort (to the end when limit is None).
C12_Pagination ==
  last.op = "get_multi" =>
    /\ BadPage => (last.err = "DBError" /\ last.cause = "ValueError" /\ last.calls = 0)
    /\ (~BadPage /\ last.err = "none") =>
         /\ last.ret.kind = "page"
         /\ \A k \in 1..Len(last.ret.data) :
              last.ret.data[k].row = After[last.ret.data[k].id]
         /\ \E scan \in Scans :
              LET S == ResultOrder(After, last.pre, query.stmt.order_by, scan)
                  hi == IF query.limit.some
                          THEN Min(query.offset + query.limit.n, Len(S)) ELSE Len(S)
              IN DataIds = [k \in 1..Max(hi - query.offset, 0) |-> S[query.offset + k]]

\* a sorted page that skips a row and is cut by its limit
C12_Witness ==
  /\ last.op = "get_multi" /\ last.err = "none"
  /\ query.offset = 1 /\ query.limit = Limit(1)
  /\ Len(query.stmt.order_by) > 0 /\ query.stmt.order_by[1].order = "desc"
  /\ Cardinality(last.pre) > 1 /\ Len(last.ret.data) = 1

JoinSpecError == last.err = "DBError" /\ last.cause = "ValueError" /\ last.calls = 0

\* C13: a get_joined that passes joins_config together with any single-join
\* parameter, or neither joins_config nor join_model, fails with ValueError
\* (as DBError) and makes no storage call.
C13_ExactlyOneJoinForm ==
  last.op = "get_joined" =>
    /\ (jcall.joins_config # <<>> /\ jcall.single # NoSingle) => JoinSpecError
    /\ (jcall.joins_config = <<>> /\ ~jcall.single.join_model) => JoinSpecError

\* the places of join j's columns in a flat row, the fields selected for
\* it, the object they make up, and whether its primary key came back NULL
JoinPlaces(row, j) == {x \in 1..Len(row) : row[x].join = j}
JoinFields(row, j) == {row[x].field : x \in JoinPlaces(row, j)}
ChildObject(row, j) ==
  [f \in JoinFields(row, j) |->
     row[CHOOSE x \in JoinPlaces(row, j) : row[x].field = f].val]
KeyIsNull(row, j) ==
  /\ _get_primary_key \in JoinFields(row, j)
  /\ ChildObject(row, j)[_get_primary_key] = PyNone

\* a get_joined with nest_joins that ran its statement with one join
NestedOneJoin ==
  /\ last.op = "get_joined" /\ last.calls > 0
  /\ jcall.nest_joins /\ Len(jcall.join_definitions) = 1

\* the one row of the result is a parent whose outer join matched nothing
OuterJoinMiss ==
  /\ NestedOneJoin /\ Len(jcall.data_list) = 1
  /\ jcall.join_definitions[1].join_type = "left"
  /\ KeyIsNull(jcall.data_list[1], 1)
  /\ \A x \in JoinPlaces(jcall.data_list[1], 1) : jcall.data_list[1][x].val = PyNone

\* C14: reconciling one parent row whose outer join matched nothing (the
\* joined columns NULL, the join's primary key among them) gives the empty
\* list under the key of a one-to-many join and None under the key of a
\* one-to-one join.
C14_OuterJoinMissCollapses ==
  OuterJoinMiss =>
    /\ last.err = "none" /\ last.ret.kind = "dict"
    /\ NestedKey(jcall.join_definitions[1]) \in DOMAIN last.ret.data
    /\ last.ret.data[NestedKey(jcall.join_definitions[1])] =
         IF jcall.join_definitions[1].relationship_type = "one-to-many"
           THEN PyList(<<>>) ELSE PyNone

C14_Witness ==
  /\ OuterJoinMiss /\ last.err = "none"
  /\ jcall.join_definitions[1].relationship_type = "one-to-many"
  /\ last.ret.data[NestedKey(jcall.join_definitions[1])] = PyList(<<>>)

\* two or more rows of one parent, each with another child of the
\* one-to-many join
SiblingRows ==
  /\ NestedOneJoin /\ Len(jcall.data_list) > 1
  /\ jcall.join_definitions[1].relationship_type = "one-to-many"
  /\ \A a, b \in 1..Len(jcall.data_list) :
       /\ jcall.data_list[a][1].val = jcall.data_list[b][1].val
       /\ ~KeyIsNull(jcall.data_list[a], 1)
       /\ _get_primary_key \in JoinFields(jcall.data_list[a], 1)
       /\ a # b => ChildObject(jcall.data_list[a], 1)[_get_primary_key]
                     # ChildObject(jcall.data_list[b], 1)[_get_primary_key]

C16_RealChildrenKept ==
  (/\ NestedOneJoin /\ last.err = "none" /\ last.ret.kind = "dict"
   /\ jcall.join_definitions[1].relationship_type = "one-to-many") =>
    \A a \in 1..Len(jcall.data_list) :
      (_get_primary_key \in JoinFields(jcall.data_list[a], 1)
       /\ ~KeyIsNull(jcall.data_list[a], 1)) =>
        /\ NestedKey(jcall.join_definitions[1]) \in DOMAIN last.ret.data
        /\ \E k \in 1..Len(last.ret.data[NestedKey(jcall.join_definitions[1])].items) :
             last.ret.data[NestedKey(jcall.join_definitions[1])].items[k]
               = ChildObject(jcall.data_list[a], 1)

\* what reconciliation owes join j of a single row: its columns, marker and
\* prefix stripped, under the join's key and nothing else there
NestedUnderOwnKey(d, row, j) ==
  LET join == jcall.join_definitions[j]
      nk == NestedKey(join)
  IN /\ nk \in DOMAIN d
     /\ d[nk] = IF join.relationship_type = "one-to-many"
                  THEN PyList(IF KeyIsNull(row, j) THEN <<>> ELSE <<ChildObject(row, j)>>)
                  ELSE IF KeyIsNull(row, j) THEN PyNone ELSE PyDict(ChildObject(row, j))

\* C17: reconciling one flat row with joins of pairwise distinct prefixes
\* puts every joined column under the key of its own join and leaves every
\* other column a top-level field.
C17_ColumnsUnderOwnJoin ==
  (/\ last.op = "get_joined" /\ last.err = "none" /\ last.ret.kind = "dict"
   /\ jcall.nest_joins /\ Len(jcall.data_list) = 1
   /\ \A i, j \in 1..Len(jcall.join_definitions) :
        i # j => jcall.join_definitions[i].join_prefix # jcall.join_definitions[j].join_prefix) =>
    /\ \A j \in 1..Len(jcall.join_definitions) :
         NestedUnderOwnKey(last.ret.data, jcall.data_list[1], j)
    /\ \A x \in JoinPlaces(jcall.data_list[1], 0) :
         /\ jcall.data_list[1][x].key \in DOMAIN last.ret.data
         /\ last.ret.data[jcall.data_list[1][x].key] = jcall.data_list[1][x].val

\* C18: whatever the other callers do between its count and its statement,
\* the statement of an update or delete called without allow_multiple
\* matches at most one row.
C18_GuardHoldsUnderRace ==
  \A p \in CallerIds :
    (callers[p].op \in {"update", "delete"} /\ ~callers[p].args.allow)
      => Cardinality(callers[p].touched) <= 1

\* the commits the call made on the session it was handed: all its commits
\* but those of the sessions its wrappers opened
SessionCommits ==
  last.commits - Cardinality({k \in 1..Len(last.wlog) : last.wlog[k].final = "Committed"})

\* C19: an update with commit=True on the caller's session that returns
\* normally has committed that session, with or without returned rows; a
\* create, update, db_delete or delete with commit=False on the caller's
\* session that returns normally has not.
C19_CommitFlagHonoured ==
  /\ (last.op = "update" /\ last.given /\ last.commit /\ last.err = "none")
       => SessionCommits >= 1
  /\ (last.op \in Mutations /\ last.given /\ ~last.commit /\ last.err = "none")
       => SessionCommits = 0

====
